---- MODULE Spec2Model ----
(***************************************************************************)
(* Raw metrics of radon (src/radon/raw.py): the tokenizer-driven line      *)
(* classifier `analyze`, its line assembler `_get_all_tokens`, the         *)
(* statement splitter `_split_tokens` and the logical-line counter         *)
(* `_logical`.                                                             *)
(*                                                                         *)
(* Text is a sequence of lexemes.  One lexeme stands for one lexical unit  *)
(* of Python source:                                                       *)
(*   "x"  a name or number          ":" ";" "(" ")"  the operators         *)
(*   "s"  a complete one-line string literal ("a")                         *)
(*   "q"  a triple-quote delimiter (opens or closes a multi-line string)   *)
(*   "#"  a comment (it runs to the end of its physical line)              *)
(*   "bs" a backslash      "sp" a blank      "nl" the newline character    *)
(* Rows are 1-based and columns 0-based, as in tokenize; every lexeme is   *)
(* one column wide.                                                        *)
(***************************************************************************)
EXTENDS Integers, Sequences, FiniteSets

\* Longest source text, in physical lines.
MaxLines == 3

\* The physical lines a source text is made of (before stripping).
LineKinds ==
    { <<>>,                          \* blank line
      <<"sp", "x">>,                 \* indented statement
      <<"#">>,                       \* comment-only line
      <<"x", ":">>,                  \* bare header           if x:
      <<"x", ":", "x">>,             \* header, inline body   if x: a
      <<"x", ":", "x", "x">>,        \* header, inline body   if x: return 0
      <<"x", ":", "#">>,             \* header, comment       if x:  # c
      <<"x", ":", "x", ";", "x">>,   \* header, body; stmt    if x: a; b
      <<"s">>,                       \* one-line docstring    "a"
      <<"q">>,                       \* triple-quote delimiter
      <<"s", "bs">>,                 \* string, continuation  "a" \
      <<"(">>,
      <<")">> }

\* The source texts: up to MaxLines physical lines.
Sources == UNION { [ 1..n -> LineKinds ] : n \in 0..MaxLines }

VARIABLES
    source,            \* source.splitlines(): the physical lines of the text
    implicit_newline,  \* whether tokenize appends a NEWLINE at end of input
    pc,                \* position in analyze
    consumed,          \* number of lines taken from the generator `lines`
    lineno,            \* the counter of enumerate(lines, 1)
    line,              \* _get_all_tokens: the buffer being tokenized
    used_lines,        \* _get_all_tokens: the lines consumed for this group
    tokens,            \* analyze: tokens of the current group
    parsed_lines,      \* analyze: lines of the current group
    lloc, comments, single_comments, multi, blank, sloc,
    result,            \* << Module >> once analyze has returned, else << >>
    raised,            \* << lineno >> once SyntaxError was raised, else << >>
    batches            \* history: the parsed_lines of every group so far

vars == << source, implicit_newline, pc, consumed, lineno, line, used_lines,
           tokens, parsed_lines, lloc, comments, single_comments, multi,
           blank, sloc, result, raised, batches >>

----------------------------------------------------------------------------
\* str.strip(): drop leading and trailing blanks.
RECURSIVE LStrip(_)
LStrip(l) ==
    IF l # <<>> /\ Head(l) = "sp" THEN LStrip(Tail(l)) ELSE l

RECURSIVE RStrip(_)
RStrip(l) ==
    IF l # <<>> /\ l[Len(l)] = "sp" THEN RStrip(SubSeq(l, 1, Len(l) - 1)) ELSE l

Strip(l) == RStrip(LStrip(l))

\* Index of the first lexeme c of l at or after position from; 0 if none.
RECURSIVE IndexFrom(_, _, _)
IndexFrom(l, c, from) ==
    IF from > Len(l) THEN 0
    ELSE IF l[from] = c THEN from
    ELSE IndexFrom(l, c, from + 1)

\* The element of a singleton set.  Only({ F(v) : v \in { e } }) is F(e) with
\* e evaluated once, whatever the number of places F uses it.
Only(S) == CHOOSE r \in S : TRUE

\* io.StringIO(code).readline: the lines of the buffer, each with its
\* newline; the end of the buffer is not a line.
RECURSIVE ReadLines(_)
ReadLines(buf) ==
    IF buf = <<>> THEN <<>>
    ELSE Only({ IF k = 0 THEN << buf >>
                ELSE << SubSeq(buf, 1, k) >> \o ReadLines(SubSeq(buf, k + 1, Len(buf)))
                : k \in { IndexFrom(buf, "nl", 1) } })

Tok(type, value, srow, scol, erow, ecol) ==
    [ type |-> type, value |-> value,
      srow |-> srow, scol |-> scol, erow |-> erow, ecol |-> ecol ]

Emit(st, t) == [ st EXCEPT !.toks = Append(@, t) ]

\* tokenize: the pseudo-token at position pos (1-based) of line l.  The
\* result is the position after it and the tokenizer's state; a multi-line
\* string that starts here takes the rest of the line.
ScanToken(l, pos, st) ==
    LET c   == l[pos]
        col == pos - 1
        one(type) == Tok(type, c, st.lnum, col, st.lnum, col + 1)
        end == IF l[Len(l)] = "nl" THEN Len(l) - 1 ELSE Len(l)
        close == IndexFrom(l, "q", pos + 1)
    IN
    CASE c = "sp" -> [ pos |-> pos + 1, st |-> st ]
      [] c = "nl" ->
           [ pos |-> pos + 1,
             st |-> Emit(st, one(IF st.parenlev > 0 THEN "NL" ELSE "NEWLINE")) ]
      [] c = "#" ->
           [ pos |-> end + 1,
             st |-> Emit(st, Tok("COMMENT", c, st.lnum, col, st.lnum, end)) ]
      [] c = "q" ->
           IF close # 0
           THEN [ pos |-> close + 1,
                  st |-> Emit(st, Tok("STRING", c, st.lnum, col, st.lnum, close)) ]
           ELSE [ pos |-> Len(l) + 1,
                  st |-> [ st EXCEPT !.contstr = TRUE, !.strstart = << st.lnum, col >> ] ]
      [] c = "s" -> [ pos |-> pos + 1, st |-> Emit(st, one("STRING")) ]
      [] c = "x" -> [ pos |-> pos + 1, st |-> Emit(st, one("NAME")) ]
      [] c = "bs" ->
           IF pos < Len(l) /\ l[pos + 1] = "nl"
           THEN [ pos |-> pos + 2, st |-> [ st EXCEPT !.continued = TRUE ] ]
           ELSE [ pos |-> pos + 1, st |-> Emit(st, one("ERRORTOKEN")) ]
      [] OTHER ->
           LET lev == CASE c = "(" -> st.parenlev + 1
                        [] c = ")" -> st.parenlev - 1
                        [] OTHER   -> st.parenlev
           IN  [ pos |-> pos + 1, st |-> Emit([ st EXCEPT !.parenlev = lev ], one("OP")) ]

\* tokenize: while pos < max, the scan of line l from position pos.
RECURSIVE ScanLine(_, _, _)
ScanLine(l, pos, st) ==
    IF pos > Len(l) THEN st
    ELSE Only({ ScanLine(l, n.pos, n.st) : n \in { ScanToken(l, pos, st) } })

\* tokenize: one iteration of the loop over the lines of the stream.  The
\* lines of the buffer are stripped, so a new statement starts on column 0.
TokLine(l, st0) ==
    LET st    == [ st0 EXCEPT !.lnum = @ + 1 ]
        close == IndexFrom(l, "q", 1)
        end   == IF l[Len(l)] = "nl" THEN Len(l) - 1 ELSE Len(l)
    IN
    IF st.contstr
    THEN IF close # 0
         THEN ScanLine(l, close + 1,
                 Emit([ st EXCEPT !.contstr = FALSE ],
                      Tok("STRING", "q", st.strstart[1], st.strstart[2], st.lnum, close)))
         ELSE st
    ELSE IF st.parenlev = 0 /\ ~st.continued
    THEN CASE l[1] = "#" ->
                Emit(Emit(st, Tok("COMMENT", "#", st.lnum, 0, st.lnum, end)),
                     Tok("NL", "nl", st.lnum, end, st.lnum, Len(l)))
           [] l[1] = "nl" ->
                Emit(st, Tok("NL", "nl", st.lnum, 0, st.lnum, Len(l)))
           [] OTHER -> ScanLine(l, 1, st)
    ELSE ScanLine(l, 1, [ st EXCEPT !.continued = FALSE ])

RECURSIVE TokLines(_, _, _)
TokLines(ls, i, st) ==
    IF i > Len(ls) THEN st
    ELSE Only({ TokLines(ls, i + 1, TokLine(l, s)) : l \in { ls[i] }, s \in { st } })

\* tokenize: the end of the input.  A string or a statement still open is
\* TokenError (ok = FALSE); otherwise the implicit NEWLINE, where tokenize
\* emits one, and the ENDMARKER.
EndOfInput(ls, st) ==
    LET lnum == st.lnum + 1
        last == IF ls = <<>> THEN <<>> ELSE ls[Len(ls)]
        nl   == /\ implicit_newline
                /\ last # <<>>
                /\ last[Len(last)] # "nl"
                /\ (Strip(last) = <<>> \/ Head(Strip(last)) # "#")
        t1   == IF nl
                THEN Append(st.toks, Tok("NEWLINE", "", lnum - 1, Len(last), lnum - 1, Len(last) + 1))
                ELSE st.toks
    IN
    IF st.contstr \/ st.parenlev # 0 \/ st.continued
    THEN [ ok |-> FALSE, toks |-> <<>> ]
    ELSE [ ok |-> TRUE, toks |-> Append(t1, Tok("ENDMARKER", "", lnum, 0, lnum, 0)) ]

StartOfInput ==
    [ lnum |-> 0, parenlev |-> 0, continued |-> FALSE, contstr |-> FALSE,
      strstart |-> << 0, 0 >>, toks |-> <<>> ]

\* _generate: list(tokenize.generate_tokens(io.StringIO(code).readline)).
_generate(code) ==
    Only({ Only({ EndOfInput(ls, st) : st \in { TokLines(ls, 1, StartOfInput) } })
           : ls \in { ReadLines(code) } })

----------------------------------------------------------------------------
\* _less_tokens: the tokens whose type is not in remove.
_less_tokens(toks, remove) == SelectSeq(toks, LAMBDA t : t.type \notin remove)

\* _find: position (1-based) of the last token equal to (token, value);
\* 0 stands for ValueError.
RECURSIVE FindFrom(_, _, _, _)
FindFrom(toks, token, value, i) ==
    IF i = 0 THEN 0
    ELSE IF toks[i].type = token /\ toks[i].value = value THEN i
    ELSE FindFrom(toks, token, value, i - 1)

_find(toks, token, value) == FindFrom(toks, token, value, Len(toks))

\* _split_tokens: split on the pair (token, value).
RECURSIVE SplitFrom(_, _, _, _, _)
SplitFrom(toks, token, value, i, res) ==
    IF i > Len(toks) THEN res
    ELSE Only({ SplitFrom(toks, token, value, i + 1, r) :
                r \in { IF toks[i].type = token /\ toks[i].value = value
                        THEN Append(res, <<>>)
                        ELSE [ res EXCEPT ![Len(res)] = Append(@, toks[i]) ] } })

_split_tokens(toks, token, value) == SplitFrom(toks, token, value, 1, << <<>> >>)

\* auxProcessed with the string tokens dropped as well before the test for an
\* empty segment.
auxStringsDropped(processed) ==
    LET token_pos == _find(processed, "OP", ":")
    IN  IF token_pos # 0
        THEN 2 - (IF token_pos = Len(processed) - 1 THEN 1 ELSE 0)
        ELSE IF _less_tokens(processed, { "NL", "ENDMARKER", "STRING", "NEWLINE" }) = <<>>
        THEN 0
        ELSE 1

\* The rest of _logical.aux once the comments are removed.  With 0-based
\* positions the source tests token_pos == len(processed) - 2; positions
\* here are 1-based.
auxProcessed(processed) ==
    LET token_pos == _find(processed, "OP", ":")
    IN  IF token_pos # 0
        THEN 2 - (IF token_pos = Len(processed) - 1 THEN 1 ELSE 0)
        ELSE IF _less_tokens(processed, { "NL", "ENDMARKER" }) = <<>> THEN 0
        ELSE 1

\* _logical.aux
aux(sub_tokens) ==
    Only({ auxProcessed(processed) :
           processed \in { _less_tokens(sub_tokens, { "COMMENT" }) } })

RECURSIVE SumAux(_, _)
SumAux(subs, i) ==
    IF i > Len(subs) THEN 0
    ELSE Only({ aux(sub) : sub \in { subs[i] } }) + SumAux(subs, i + 1)

_logical(toks) ==
    Only({ SumAux(subs, 1) : subs \in { _split_tokens(toks, "OP", ";") } })

----------------------------------------------------------------------------
\* analyze, lines 180-184: the comment tokens of the group, and the rows of
\* those that start on column 0.
RECURSIVE CountComments(_, _)
CountComments(toks, i) ==
    IF i > Len(toks) THEN 0
    ELSE (IF toks[i].type = "COMMENT" THEN 1 ELSE 0) + CountComments(toks, i + 1)

RECURSIVE CountSingleComments(_, _)
CountSingleComments(toks, i) ==
    IF i > Len(toks) THEN 0
    ELSE (IF toks[i].type = "COMMENT" /\ toks[i].scol = 0
          THEN toks[i].erow - toks[i].srow + 1 ELSE 0)
         + CountSingleComments(toks, i + 1)

\* analyze, lines 187-189: tokens[0] is a STRING and tokens[1] is the
\* ENDMARKER or tokens[:-2] are all STRING or NL.
IsDocstring(toks) ==
    /\ toks[1].type = "STRING"
    /\ \/ toks[2].type = "ENDMARKER"
       \/ \A i \in 1..(Len(toks) - 2) : toks[i].type \in { "STRING", "NL" }

\* analyze, lines 190-197: a docstring on column 0 whose first token starts
\* on the row where tokens[-2] ends.
DocstringSingle(toks) ==
    IF /\ IsDocstring(toks)
       /\ toks[1].scol = 0
       /\ toks[Len(toks) - 1].erow = toks[1].srow
    THEN 1 ELSE 0

\* NonEmptyLines without the filter: len(parsed_lines).
AllLines(ls) == Len(ls)

\* analyze, line 199: sum(1 for l in parsed_lines if l).
NonEmptyLines(ls) == Len(SelectSeq(ls, LAMBDA l : l # <<>>))

\* analyze, lines 190-199: a docstring on column 0 that ends on a later row.
DocstringMulti(toks, ls) ==
    IF /\ IsDocstring(toks)
       /\ toks[1].scol = 0
       /\ toks[Len(toks) - 1].erow # toks[1].srow
    THEN NonEmptyLines(ls) ELSE 0

\* analyze, lines 201-205.
SourceLines(ls) == Len(SelectSeq(ls, LAMBDA l : l # <<>>))
BlankLines(ls) == Len(SelectSeq(ls, LAMBDA l : l = <<>>))

\* analyze, lines 210-211: _logical over every semicolon segment.
RECURSIVE SumLogical(_, _)
SumLogical(subs, i) ==
    IF i > Len(subs) THEN 0
    ELSE Only({ _logical(sub) : sub \in { subs[i] } }) + SumLogical(subs, i + 1)

GroupLloc(toks) ==
    Only({ SumLogical(subs, 1) : subs \in { _split_tokens(toks, "OP", ";") } })

\* NoErrorToken without the test of line 96.
ErrorTokensIgnored(toks) == TRUE

\* _get_all_tokens, lines 90-97: the buffer tokenizes and holds no ERRORTOKEN.
NoErrorToken(toks) == \A i \in 1..Len(toks) : toks[i].type # "ERRORTOKEN"

Clean(code) == \E g \in { _generate(code) } : g.ok /\ NoErrorToken(g.toks)

Module(loc) ==
    [ loc |-> loc, lloc |-> lloc, sloc |-> sloc, comments |-> comments,
      multi |-> multi, blank |-> blank, single_comments |-> single_comments ]

----------------------------------------------------------------------------
Init ==
    /\ source = <<>>
    /\ implicit_newline \in BOOLEAN
    /\ pc = "call"
    /\ consumed = 0
    /\ lineno = 0
    /\ line = <<>>
    /\ used_lines = <<>>
    /\ tokens = <<>>
    /\ parsed_lines = <<>>
    /\ lloc = 0 /\ comments = 0 /\ single_comments = 0
    /\ multi = 0 /\ blank = 0 /\ sloc = 0
    /\ result = <<>>
    /\ raised = <<>>
    /\ batches = <<>>

\* analyze(source): the call, with the text split into its physical lines.
Analyze ==
    /\ pc = "call"
    /\ source' \in Sources
    /\ pc' = "for"
    /\ UNCHANGED << implicit_newline, consumed, lineno, line, used_lines,
                    tokens, parsed_lines, lloc, comments, single_comments,
                    multi, blank, sloc, result, raised, batches >>

\* for lineno, line in enumerate(lines, 1): the next line of the generator,
\* and the entry of _get_all_tokens (used_lines = [line]).
ForNext ==
    /\ pc = "for"
    /\ consumed < Len(source)
    /\ consumed' = consumed + 1
    /\ lineno' = lineno + 1
    /\ line' = Strip(source[consumed + 1])
    /\ used_lines' = << Strip(source[consumed + 1]) >>
    /\ pc' = "assemble"
    /\ UNCHANGED << source, implicit_newline, tokens, parsed_lines, lloc,
                    comments, single_comments, multi, blank, sloc, result,
                    raised, batches >>

\* _get_all_tokens: the buffer tokenizes cleanly; return tokens, used_lines.
GetAllTokensReturn ==
    /\ pc = "assemble"
    /\ Clean(line)
    /\ tokens' = _generate(line).toks
    /\ parsed_lines' = used_lines
    /\ batches' = Append(batches, used_lines)
    /\ pc' = "body"
    /\ UNCHANGED << source, implicit_newline, consumed, lineno, line,
                    used_lines, lloc, comments, single_comments, multi, blank,
                    sloc, result, raised >>

\* AddLine without used_lines.append(next_line).
AddLineForgets ==
    /\ pc = "assemble"
    /\ ~Clean(line)
    /\ consumed < Len(source)
    /\ line' = line \o << "nl" >> \o Strip(source[consumed + 1])
    /\ consumed' = consumed + 1
    /\ UNCHANGED << source, implicit_newline, pc, lineno, used_lines, tokens,
                    parsed_lines, lloc, comments, single_comments, multi, blank,
                    sloc, result, raised, batches >>

\* AddLine reading the next line without taking it from the generator.
AddLinePeeks ==
    /\ pc = "assemble"
    /\ ~Clean(line)
    /\ consumed < Len(source)
    /\ line' = line \o << "nl" >> \o Strip(source[consumed + 1])
    /\ used_lines' = Append(used_lines, Strip(source[consumed + 1]))
    /\ UNCHANGED << source, implicit_newline, pc, consumed, lineno, tokens,
                    parsed_lines, lloc, comments, single_comments, multi, blank,
                    sloc, result, raised, batches >>

\* _get_all_tokens: TokenError or an ERRORTOKEN; add another line.
AddLine ==
    /\ pc = "assemble"
    /\ ~Clean(line)
    /\ consumed < Len(source)
    /\ LET next_line == Strip(source[consumed + 1])
       IN  /\ line' = line \o << "nl" >> \o next_line
           /\ used_lines' = Append(used_lines, next_line)
    /\ consumed' = consumed + 1
    /\ UNCHANGED << source, implicit_newline, pc, lineno, tokens, parsed_lines,
                    lloc, comments, single_comments, multi, blank, sloc,
                    result, raised, batches >>

\* next(lines) raises StopIteration; analyze raises SyntaxError(lineno).
RaiseSyntaxError ==
    /\ pc = "assemble"
    /\ ~Clean(line)
    /\ consumed = Len(source)
    /\ raised' = << lineno >>
    /\ pc' = "error"
    /\ UNCHANGED << source, implicit_newline, consumed, lineno, line,
                    used_lines, tokens, parsed_lines, lloc, comments,
                    single_comments, multi, blank, sloc, result, batches >>

\* The body of the for loop: comments, docstrings, source and blank lines,
\* logical lines.
Body ==
    /\ pc = "body"
    /\ comments' = comments + CountComments(tokens, 1)
    /\ single_comments' = single_comments + CountSingleComments(tokens, 1)
                                          + DocstringSingle(tokens)
    /\ multi' = multi + DocstringMulti(tokens, parsed_lines)
    /\ sloc' = sloc + SourceLines(parsed_lines)
    /\ blank' = blank + BlankLines(parsed_lines)
    /\ lloc' = lloc + GroupLloc(tokens)
    /\ pc' = "for"
    /\ UNCHANGED << source, implicit_newline, consumed, lineno, line,
                    used_lines, tokens, parsed_lines, result, raised, batches >>

\* The generator is exhausted: derive loc and return the Module.
Return ==
    /\ pc = "for"
    /\ consumed = Len(source)
    /\ result' = << Module(sloc - multi - single_comments) >>
    /\ pc' = "done"
    /\ UNCHANGED << source, implicit_newline, consumed, lineno, line,
                    used_lines, tokens, parsed_lines, lloc, comments,
                    single_comments, multi, blank, sloc, raised, batches >>

Next ==
    \/ Analyze
    \/ ForNext
    \/ GetAllTokensReturn
    \/ AddLine
    \/ RaiseSyntaxError
    \/ Body
    \/ Return

Spec == Init /\ [][Next]_vars

\* analyze is sequential code: it takes its next step whenever it has one.
FairSpec == Spec /\ WF_vars(Next)

----------------------------------------------------------------------------
\* Helpers of the properties.

\* The stripped physical lines first..last of the source.
StrippedLines(first, last) ==
    [ i \in 1..(last - first + 1) |-> Strip(source[first + i - 1]) ]

RECURSIVE Flatten(_)
Flatten(bs) == IF bs = <<>> THEN <<>> ELSE Head(bs) \o Flatten(Tail(bs))

\* The lines joined by the newline character.
RECURSIVE JoinLines(_)
JoinLines(ls) ==
    IF Len(ls) = 1 THEN ls[1]
    ELSE JoinLines(SubSeq(ls, 1, Len(ls) - 1)) \o << "nl" >> \o ls[Len(ls)]

NonEmptyIdx(ls) == { i \in DOMAIN ls : ls[i] # <<>> }
EmptyIdx(ls) == { i \in DOMAIN ls : ls[i] = <<>> }

\* The physical line (1-based) with which the current assembly began.
StartLine == consumed - Len(used_lines) + 1

\* The tokens that are neither comments nor line ends nor the end marker.
Significant(toks) ==
    SelectSeq(toks, LAMBDA t : t.type \notin { "COMMENT", "NL", "NEWLINE", "ENDMARKER" })

IsColon(t) == t.type = "OP" /\ t.value = ":"
IsSemi(t) == t.type = "OP" /\ t.value = ";"

\* name ... :
BareHeader(toks) ==
    LET sig == Significant(toks)
    IN  /\ Len(sig) >= 2
        /\ IsColon(sig[Len(sig)])
        /\ \A i \in 1..(Len(sig) - 1) : sig[i].type = "NAME"

\* name ... : name ...  possibly followed by ; statements
InlineBody(toks) ==
    LET sig == Significant(toks)
    IN  \E c \in 2..(Len(sig) - 1) :
          /\ IsColon(sig[c])
          /\ \A i \in 1..(c - 1) : sig[i].type = "NAME"
          /\ sig[c + 1].type = "NAME"
          /\ \A i \in (c + 1)..Len(sig) : sig[i].type = "NAME" \/ IsSemi(sig[i])

CommentOnly(toks) ==
    \A i \in 1..Len(toks) : toks[i].type \in { "COMMENT", "NL", "ENDMARKER" }

\* A docstring group on column 0 that spans several physical lines.
MultiLineDocstring ==
    /\ IsDocstring(tokens)
    /\ tokens[1].scol = 0
    /\ Len(parsed_lines) > 1

----------------------------------------------------------------------------
\* C1: every returned Module satisfies
\* sloc + blank + multi + single_comments = loc.
C1_LocEquation ==
    pc = "done" =>
        result[1].sloc + result[1].blank + result[1].multi
            + result[1].single_comments = result[1].loc

\* C2: when the lines run out during an assembly, the SyntaxError carries the
\* 1-based physical line number at which that assembly began, and no Module
\* is returned.
C2_ErrorLine ==
    pc = "error" => (raised = << StartLine >> /\ result = <<>>)

C4_CommentLine ==
    [][ (Body /\ parsed_lines = << << "#" >> >>) =>
          /\ comments' = comments + 1
          /\ single_comments' = single_comments + 1
          /\ sloc' = sloc
          /\ lloc' = lloc ]_vars

\* C5 as stated: a multi-line column-0 docstring group adds 0 to lloc.
C5_DocstringLlocZero ==
    [][ (Body /\ MultiLineDocstring) => lloc' = lloc ]_vars

\* C5 as amended: a multi-line column-0 docstring group adds exactly 1 to
\* lloc, whatever the number of lines it spans.
C5_DocstringLlocOne ==
    [][ (Body /\ MultiLineDocstring) => lloc' = lloc + 1 ]_vars

C5_Witness ==
    /\ pc = "for"
    /\ Len(batches) = 1
    /\ Len(parsed_lines) = 3
    /\ IsDocstring(tokens)
    /\ lloc = 1

\* C6: a bare header (with or without a trailing comment) counts as 1
\* logical line, a header with its body on the same line counts as 2
\* whether or not semicolon-separated statements follow, and a group of
\* only comment, NL and ENDMARKER tokens counts as 0.
C6_LogicalExamples ==
    pc = "body" =>
        /\ BareHeader(tokens) => GroupLloc(tokens) = 1
        /\ InlineBody(tokens) => aux(_split_tokens(tokens, "OP", ";")[1]) = 2
        /\ CommentOnly(tokens) => GroupLloc(tokens) = 0

\* C7: for a docstring group on column 0, the docstring rule adds 1 to
\* single_comments and nothing to multi when the first token's start row is
\* the end row of the second-to-last token; otherwise it adds the number of
\* non-empty lines of the batch to multi (the blank ones go to blank) and
\* nothing to single_comments, so multi grows by what sloc grows.
C7_DocstringRule ==
    [][ (Body /\ IsDocstring(tokens) /\ tokens[1].scol = 0) =>
          IF tokens[1].srow = tokens[Len(tokens) - 1].erow
          THEN /\ multi' = multi
               /\ single_comments' =
                      single_comments + CountSingleComments(tokens, 1) + 1
          ELSE /\ multi' = multi + Cardinality(NonEmptyIdx(parsed_lines))
               /\ blank' = blank + Cardinality(EmptyIdx(parsed_lines))
               /\ single_comments' =
                      single_comments + CountSingleComments(tokens, 1)
               /\ multi' - multi = sloc' - sloc ]_vars

C7_Witness ==
    /\ pc = "for"
    /\ Len(parsed_lines) = 3
    /\ IsDocstring(tokens)
    /\ multi = 2
    /\ blank = 1
    /\ single_comments = 0

\* C8: analyze terminates, by returning a Module or by raising SyntaxError;
\* every retry of the assembler takes exactly one more line, every iteration
\* of the loop takes at least one, and the loop ends exactly when the lines
\* are exhausted.
C8_Terminates ==
    /\ <>(pc \in { "done", "error" })
    /\ [][ AddLine => (consumed' = consumed + 1
                       /\ Len(used_lines') = Len(used_lines) + 1) ]_vars
    /\ [][ ForNext => consumed' = consumed + 1 ]_vars
    /\ [][ (pc = "for" /\ pc' # "for") =>
             ((pc' = "done") <=> (consumed = Len(source))) ]_vars

C8_Witness ==
    /\ pc = "error"
    /\ lineno = 2
    /\ Len(used_lines) = 2

\* C9: the batch returned by the assembler is the shortest prefix of the
\* lines whose newline-joined buffer tokenizes without TokenError and without
\* ERRORTOKEN, and the tokens are those of exactly that buffer.
C9_Shortest ==
    pc = "body" =>
        /\ parsed_lines = StrippedLines(StartLine, consumed)
        /\ _generate(JoinLines(parsed_lines)).ok
        /\ tokens = _generate(JoinLines(parsed_lines)).toks
        /\ \A i \in DOMAIN tokens : tokens[i].type # "ERRORTOKEN"
        /\ \A k \in 1..(Len(parsed_lines) - 1) :
             LET g == _generate(JoinLines(SubSeq(parsed_lines, 1, k)))
             IN  \/ ~g.ok
                 \/ \E i \in DOMAIN g.toks : g.toks[i].type = "ERRORTOKEN"

C9_Witness ==
    /\ pc = "body"
    /\ Len(parsed_lines) = 2
    /\ _generate(parsed_lines[1]).ok
    /\ lineno = 1

\* C10: after every iteration multi + single_comments is at most sloc, so
\* the derived loc is never negative.
C10_LocNonNegative ==
    /\ pc \in { "for", "done" } => multi + single_comments <= sloc
    /\ pc = "done" => result[1].loc >= 0

====
